---- MODULE Spec2Model ----
(***************************************************************************)
(* A model of lib/Channel.hpp: the single-producer / single-consumer ring *)
(* buffer channel built on two counting semaphores.                        *)
(*                                                                         *)
(* Two threads are modelled: the sender thread, which owns the             *)
(* SenderChannel handle, and the receiver thread, which owns the           *)
(* ReceiverChannel handle.  Every method is cut into steps at its          *)
(* accesses to the shared Data object, so that the two threads interleave  *)
(* exactly where the machine lets them.                                    *)
(*                                                                         *)
(* T is int, as in the tests: moving a slot out leaves its value in place. *)
(*                                                                         *)
(* Data::open is a plain bool that one thread writes (close, destructor)   *)
(* and the other reads (is_open) with no synchronisation of its own: a     *)
(* data race.  A read of open made by a thread that the closing write does *)
(* not happen-before may return the stale value true or the new value      *)
(* false.  The only happens-before edges between the threads are those of  *)
(* the semaphores: a release() synchronises with the acquire() /           *)
(* successful try_acquire() that takes the counter afterwards.             *)
(*                                                                         *)
(* std::counting_semaphore is modelled by its counter: acquire() waits for *)
(* a positive counter and decrements it, try_acquire() decrements a        *)
(* positive counter and fails on zero, release() increments it.  The       *)
(* spurious failure the standard allows try_acquire() is left out: a       *)
(* try_acquire() of a positive counter succeeds.                           *)
(*                                                                         *)
(* The channel never inspects a value of T, so the k-th value handed to    *)
(* the sender is the number k: a loss, a duplicate or a swap shows in the  *)
(* history of the values received.                                         *)
(*                                                                         *)
(* A call that returns a value leaves its thread at "returned" with the    *)
(* value in scall / rcall until the caller goes on.                        *)
(***************************************************************************)
EXTENDS Integers, Sequences, FiniteSets, TLC

\* Channel.hpp:37 -- the template parameter Size (the capacity) of the model.
Size == 2
\* At most MaxSends values are enqueued in a behaviour of Spec.
MaxSends == 4
\* At most MaxMoved moved-from handles per side are alive at once.
MaxMoved == 1
\* unnamed/part_000:33 -- SampleSize of ThreadSingleWriter, in the model.
SampleSize == 4

\* The values of a handle's `internal` pointer; GONE: the handle is destroyed.
DATA == "data"
NULL == "null"
GONE == "gone"
\* std::nullopt (and a variable holding nothing); std::optional<T>(v).
NONE == <<>>
Some(v) == <<v>>

SND == "sender"
RCV == "receiver"

VARIABLES
    open,      \* Data::open
    head,      \* Data::head
    tail,      \* Data::tail
    buffer,    \* Data::buffer, indexed 0 .. Size-1
    read,      \* counter of the semaphore Data::read
    write,     \* counter of the semaphore Data::write
    refs,      \* use count of the shared_ptr<Data>
    rx,        \* ReceiverChannel::internal of the receiver thread's handle
    tx,        \* SenderChannel::internal of the sender thread's handle
    rxOld,     \* internal pointers of the moved-from receiver handles alive
    txOld,     \* internal pointers of the moved-from sender handles alive
    spc,       \* where the sender thread is
    rpc,       \* where the receiver thread is
    sdata,     \* the argument `data` of the send / try_send in progress, if any
    rtmp,      \* the local `tmp` of the receive in progress, if any
    seen,      \* seen[t]: the write open = false happens-before thread t's next step
    carried,   \* carried[s]: a release of semaphore s happened after its thread saw the close
    scall,     \* the sender's call in progress or just returned: what it found, its result
    rcall,     \* the receiver's call in progress or just returned: what it found, its result
    sent,      \* history: the values enqueued, in order
    rcvd       \* history: the values returned to the receiver, in order

vars == <<open, head, tail, buffer, read, write, refs, rx, tx, rxOld, txOld,
          spc, rpc, sdata, rtmp, seen, carried, scall, rcall, sent, rcvd>>

shared == <<open, head, tail, buffer, read, write>>

----------------------------------------------------------------------------
\* A Data whose write semaphore starts one above the number of slots.
Data_extra ==
    [open |-> TRUE, head |-> 0, tail |-> 0,
     buffer |-> [i \in 0 .. Size - 1 |-> 0],
     read |-> 0, write |-> Size + 1]

\* struct Data: the member initialisers; make_shared<Data>() value-initialises
\* the buffer.
Data ==
    [open |-> TRUE, head |-> 0, tail |-> 0,
     buffer |-> [i \in 0 .. Size - 1 |-> 0],
     read |-> 0, write |-> Size]

\* The move constructors: the new handle takes other.internal ...
MoveTaken(other) == other

\* A move constructor that forgets `other.internal = nullptr`.
MoveDonor_kept(other) == other

\* ... and the donor is left holding nullptr.
MoveDonor(other) == NULL

\* close(): the value of Data::open after close() on a handle holding `internal`.
CloseOpen(internal, o) == IF internal # NULL THEN FALSE ELSE o

\* A destructor that does not give up its share of the Data object.
Release_kept(internal, n) == n

\* The shared_ptr released by a destructor: the use count afterwards.
Release(internal, n) == IF internal # NULL THEN n - 1 ELSE n

\* The number of handles among hs that hold the Data object.
Holders(hs) == Cardinality({i \in DOMAIN hs : hs[i] = DATA})

\* create_channel(): rx and tx are built on one Data, moved into the pair, and
\* the moved-from locals are destroyed (tx first, then rx).
create_channel ==
    LET d    == Data
        rx0  == DATA
        tx0  == rx0
        rxp  == MoveTaken(rx0)
        rxl  == MoveDonor(rx0)
        txp  == MoveTaken(tx0)
        txl  == MoveDonor(tx0)
        o1   == CloseOpen(txl, d.open)
        o2   == CloseOpen(rxl, o1)
        n    == Release(rxl, Release(txl, Holders(<<rxp, txp, rxl, txl>>)))
    IN  [data |-> [d EXCEPT !.open = o2], rx |-> rxp, tx |-> txp, refs |-> n]

\* No call in progress.
NoCall == [op |-> "none", closed |-> FALSE, held |-> 0, rt |-> NONE,
           val |-> NONE, clean |-> FALSE]

Init ==
    LET c == create_channel
    IN  /\ open = c.data.open
        /\ head = c.data.head
        /\ tail = c.data.tail
        /\ buffer = c.data.buffer
        /\ read = c.data.read
        /\ write = c.data.write
        /\ refs = c.refs
        /\ rx = c.rx
        /\ tx = c.tx
        /\ rxOld = <<>>
        /\ txOld = <<>>
        /\ spc = "idle"
        /\ rpc = "idle"
        /\ sdata = NONE
        /\ rtmp = NONE
        /\ seen = [t \in {SND, RCV} |-> FALSE]
        /\ carried = [s \in {"read", "write"} |-> FALSE]
        /\ scall = NoCall
        /\ rcall = NoCall
        /\ sent = <<>>
        /\ rcvd = <<>>

----------------------------------------------------------------------------
\* The pieces of the methods.

\* is_open() called by thread t: the values the read of Data::open can return.
\* The read is ordered after the closing write only if t has seen it.
is_open(t) ==
    IF open THEN {TRUE} ELSE IF seen[t] THEN {FALSE} ELSE {TRUE, FALSE}

\* A try_acquire() that takes from the count even when it fails.
try_acquire_taken(c) == [ok |-> c > 0, count |-> c - 1]

\* counting_semaphore::try_acquire() on a counter c.
try_acquire(c) ==
    IF c > 0 THEN [ok |-> TRUE, count |-> c - 1] ELSE [ok |-> FALSE, count |-> c]

\* An acquire() that gives nothing out once the channel has been closed.
can_acquire_if_open(c) == c > 0 /\ open

\* An acquire() that also returns once the channel has been closed.
can_acquire_or_closed(c) == c > 0 \/ ~open

\* counting_semaphore::acquire() on a counter c: it returns once c is positive.
can_acquire(c) == c > 0

\* A release() that wakes nobody: the counter is left as it was.
release_lost(c) == c

\* counting_semaphore::release() on a counter c.
release(c) == c + 1

\* A writeTail that does not advance tail.
writeTail_stuck(buf, t, data) ==
    [buffer |-> [buf EXCEPT ![t] = data], tail |-> t]

\* A writeTail that advances tail without wrapping around.
writeTail_nowrap(buf, t, data) ==
    [buffer |-> [buf EXCEPT ![t] = data], tail |-> t + 1]

\* SenderChannel::writeTail: the buffer and tail afterwards.
writeTail(buf, t, data) ==
    [buffer |-> [buf EXCEPT ![t] = data], tail |-> (t + 1) % Size]

\* A getHead that does not advance head.
getHead_stuck(buf, h) ==
    [tmp |-> buf[h], head |-> h]

\* ReceiverChannel::getHead: the value moved out and head afterwards.
getHead(buf, h) ==
    [tmp |-> buf[h], head |-> (h + 1) % Size]

\* try_receive() between getHead() and its return: the counter of Data::write
\* afterwards (the method does not touch it).
try_receive_write(w) == w

\* The number of elements enqueued and not yet returned to the receiver.
Held == Len(sent) - Len(rcvd)

\* A thread outside any call.
Quiet(pc) == pc \in {"idle", "returned"}

\* What a call o of thread t finds when it begins: whether the channel is
\* already closed, how many elements it holds (-1 when the peer is inside a
\* call), and, for the receiver, the value x when the sender has just returned
\* from a try_send(x) that put x into the empty open channel.
Call(t, o) ==
    [op     |-> o,
     closed |-> ~open,
     held   |-> IF Quiet(IF t = SND THEN rpc ELSE spc) THEN Held ELSE -1,
     rt     |-> IF /\ t = RCV
                   /\ spc = "returned"
                   /\ scall.op = "try_send" /\ scall.val = TRUE
                   /\ scall.held = 0 /\ scall.clean /\ ~scall.closed
                   /\ open /\ Held = 1
                THEN Some(sent[Len(sent)]) ELSE NONE,
     val    |-> NONE,
     clean  |-> FALSE]

\* The call c of thread t returns v; `moved` is the number of elements (0 or 1)
\* the call itself has added to the history so far.  The call is clean when
\* the peer has changed nothing since it began.
Returned(t, c, v, moved) ==
    [c EXCEPT !.val = v,
              !.clean = /\ c.held >= 0
                        /\ Quiet(IF t = SND THEN rpc ELSE spc)
                        /\ Held = (IF t = SND THEN c.held + moved ELSE c.held - moved)
                        /\ open = ~c.closed
                        /\ (c.rt # NONE => (spc = "returned" /\ scall.op = "try_send"))]

\* Thread t has read Data::open and found b.
Saw(t, b) == [seen EXCEPT ![t] = @ \/ ~b]

----------------------------------------------------------------------------
\* The sender thread.

\* send(data) is called.
SendCall(v) ==
    /\ spc = "idle" /\ tx = DATA
    /\ spc' = "send_acquire"
    /\ sdata' = Some(v)
    /\ scall' = Call(SND, "send")
    /\ UNCHANGED <<shared, refs, rx, tx, rxOld, txOld, rpc, rtmp, seen, carried,
                   rcall, sent, rcvd>>

\* send: internal->write.acquire()
SendAcquire ==
    /\ spc = "send_acquire"
    /\ can_acquire(write)
    /\ write' = write - 1
    /\ seen' = [seen EXCEPT ![SND] = @ \/ carried["write"]]
    /\ spc' = "write_tail"
    /\ UNCHANGED <<open, head, tail, buffer, read, refs, rx, tx, rxOld, txOld,
                   rpc, sdata, rtmp, carried, scall, rcall, sent, rcvd>>

\* try_send(data) is called: if (!is_open() ...) return false
TrySendCall(v) ==
    /\ spc = "idle" /\ tx = DATA
    /\ \E b \in is_open(SND) :
         /\ seen' = Saw(SND, b)
         /\ IF b
            THEN /\ spc' = "try_send_acquire"
                 /\ sdata' = Some(v)
                 /\ scall' = Call(SND, "try_send")
            ELSE /\ spc' = "returned"
                 /\ sdata' = NONE
                 /\ scall' = Returned(SND, Call(SND, "try_send"), FALSE, 0)
    /\ UNCHANGED <<shared, refs, rx, tx, rxOld, txOld, rpc, rtmp, carried,
                   rcall, sent, rcvd>>

\* try_send: if (... !internal->write.try_acquire()) return false
TrySendAcquire ==
    /\ spc = "try_send_acquire"
    /\ LET a == try_acquire(write)
       IN  /\ write' = a.count
           /\ IF a.ok
              THEN /\ spc' = "write_tail"
                   /\ seen' = [seen EXCEPT ![SND] = @ \/ carried["write"]]
                   /\ UNCHANGED <<sdata, scall>>
              ELSE /\ spc' = "returned"
                   /\ sdata' = NONE
                   /\ scall' = Returned(SND, scall, FALSE, 0)
                   /\ seen' = seen
    /\ UNCHANGED <<open, head, tail, buffer, read, refs, rx, tx, rxOld, txOld,
                   rpc, rtmp, carried, rcall, sent, rcvd>>

\* writeTail: the assignment buffer[tail] = data begins. The assignment is
\* not atomic: from here to the end of SendWriteTail the sender is writing
\* the slot numbered tail.
SendWriteSlot ==
    /\ spc = "write_tail"
    /\ spc' = "writing"
    /\ UNCHANGED <<shared, refs, rx, tx, rxOld, txOld, rpc, sdata, rtmp, seen,
                   carried, scall, rcall, sent, rcvd>>

\* send / try_send: writeTail(std::move(data)): the assignment to the slot
\* completes and tail is advanced
SendWriteTail ==
    /\ spc = "writing"
    /\ LET w == writeTail(buffer, tail, sdata[1])
       IN  /\ buffer' = w.buffer
           /\ tail' = w.tail
    /\ sent' = Append(sent, sdata[1])
    /\ spc' = "release"
    /\ UNCHANGED <<open, head, read, write, refs, rx, tx, rxOld, txOld, rpc,
                   sdata, rtmp, seen, carried, scall, rcall, rcvd>>

\* send / try_send: internal->read.release(); try_send returns true
SendRelease ==
    /\ spc = "release"
    /\ read' = release(read)
    /\ carried' = [carried EXCEPT !["read"] = @ \/ seen[SND]]
    /\ sdata' = NONE
    /\ IF scall.op = "try_send"
       THEN /\ spc' = "returned"
            /\ scall' = Returned(SND, scall, TRUE, 1)
       ELSE /\ spc' = "idle"
            /\ scall' = NoCall
    /\ UNCHANGED <<open, head, tail, buffer, write, refs, rx, tx, rxOld, txOld,
                   rpc, rtmp, seen, rcall, sent, rcvd>>

\* SenderChannel::is_open()
SenderIsOpen ==
    /\ spc = "idle" /\ tx = DATA
    /\ \E b \in is_open(SND) :
         /\ seen' = Saw(SND, b)
         /\ scall' = Returned(SND, Call(SND, "is_open"), b, 0)
    /\ spc' = "returned"
    /\ UNCHANGED <<shared, refs, rx, tx, rxOld, txOld, rpc, sdata, rtmp,
                   carried, rcall, sent, rcvd>>

\* The sender's caller has the value returned and goes on.
SenderReturn ==
    /\ spc = "returned"
    /\ spc' = "idle"
    /\ scall' = NoCall
    /\ UNCHANGED <<shared, refs, rx, tx, rxOld, txOld, rpc, sdata, rtmp, seen,
                   carried, rcall, sent, rcvd>>

\* A close() that also posts the read semaphore to wake the receiver.
SenderClose_wake ==
    /\ spc = "idle" /\ tx = DATA
    /\ open' = CloseOpen(tx, open)
    /\ read' = release(read)
    /\ seen' = [seen EXCEPT ![SND] = TRUE]
    /\ UNCHANGED <<head, tail, buffer, write, refs, rx, tx, rxOld, txOld,
                   spc, rpc, sdata, rtmp, carried, scall, rcall, sent, rcvd>>

\* SenderChannel::close()
SenderClose ==
    /\ spc = "idle" /\ tx = DATA
    /\ open' = CloseOpen(tx, open)
    /\ seen' = [seen EXCEPT ![SND] = TRUE]
    /\ UNCHANGED <<head, tail, buffer, read, write, refs, rx, tx, rxOld, txOld,
                   spc, rpc, sdata, rtmp, carried, scall, rcall, sent, rcvd>>

\* SenderChannel(SenderChannel &&other): the thread goes on with the new handle.
SenderMove ==
    /\ spc = "idle" /\ tx = DATA
    /\ Len(txOld) < MaxMoved
    /\ tx' = MoveTaken(tx)
    /\ txOld' = Append(txOld, MoveDonor(tx))
    /\ refs' = Holders(<<rx, tx'>> \o rxOld \o txOld')
    /\ UNCHANGED <<shared, rx, rxOld, spc, rpc, sdata, rtmp, seen, carried,
                   scall, rcall, sent, rcvd>>

\* ~SenderChannel() of a moved-from handle
SenderDestroyMoved ==
    /\ txOld # <<>>
    /\ open' = CloseOpen(Head(txOld), open)
    /\ refs' = Release(Head(txOld), refs)
    /\ txOld' = Tail(txOld)
    /\ seen' = [seen EXCEPT ![SND] = @ \/ (Head(txOld) # NULL)]
    /\ UNCHANGED <<head, tail, buffer, read, write, rx, tx, rxOld, spc, rpc,
                   sdata, rtmp, carried, scall, rcall, sent, rcvd>>

\* ~SenderChannel() of the sender thread's handle
SenderDestroy ==
    /\ spc = "idle" /\ tx = DATA
    /\ open' = CloseOpen(tx, open)
    /\ refs' = Release(tx, refs)
    /\ tx' = GONE
    /\ seen' = [seen EXCEPT ![SND] = TRUE]
    /\ UNCHANGED <<head, tail, buffer, read, write, rx, rxOld, txOld, spc, rpc,
                   sdata, rtmp, carried, scall, rcall, sent, rcvd>>

----------------------------------------------------------------------------
\* The receiver thread.

\* receive() is called.
ReceiveCall ==
    /\ rpc = "idle" /\ rx = DATA
    /\ rpc' = "recv_acquire"
    /\ rcall' = Call(RCV, "receive")
    /\ UNCHANGED <<shared, refs, rx, tx, rxOld, txOld, spc, sdata, rtmp, seen,
                   carried, scall, sent, rcvd>>

\* receive: internal->read.acquire()
ReceiveAcquire ==
    /\ rpc = "recv_acquire"
    /\ can_acquire(read)
    /\ read' = read - 1
    /\ seen' = [seen EXCEPT ![RCV] = @ \/ carried["read"]]
    /\ rpc' = "recv_get"
    /\ UNCHANGED <<open, head, tail, buffer, write, refs, rx, tx, rxOld, txOld,
                   spc, sdata, rtmp, carried, scall, rcall, sent, rcvd>>

\* getHead: the read std::move(internal->buffer[internal->head]) begins, in
\* receive() and in try_receive(). The read is not atomic: from here to the
\* end of ReceiveGetHead or TryReceiveGetHead the receiver is reading the
\* slot numbered head.
ReceiveReadSlot ==
    /\ rpc \in {"recv_get", "try_recv_get"}
    /\ rpc' = IF rpc = "recv_get" THEN "reading" ELSE "try_reading"
    /\ UNCHANGED <<shared, refs, rx, tx, rxOld, txOld, spc, sdata, rtmp, seen,
                   carried, scall, rcall, sent, rcvd>>

\* receive: auto tmp = getHead(): the read of the slot completes and head is
\* advanced
ReceiveGetHead ==
    /\ rpc = "reading"
    /\ rpc' = "recv_release"
    /\ LET g == getHead(buffer, head)
       IN  /\ rtmp' = Some(g.tmp)
           /\ head' = g.head
    /\ UNCHANGED <<open, tail, buffer, read, write, refs, rx, tx, rxOld, txOld,
                   spc, sdata, seen, carried, scall, rcall, sent, rcvd>>

\* receive: internal->write.release(); return std::move(tmp)
ReceiveRelease ==
    /\ rpc = "recv_release"
    /\ write' = release(write)
    /\ carried' = [carried EXCEPT !["write"] = @ \/ seen[RCV]]
    /\ rcvd' = Append(rcvd, rtmp[1])
    /\ rcall' = Returned(RCV, rcall, rtmp, 0)
    /\ rpc' = "returned"
    /\ rtmp' = NONE
    /\ UNCHANGED <<open, head, tail, buffer, read, refs, rx, tx, rxOld, txOld,
                   spc, sdata, seen, scall, sent>>

\* try_receive() is called: if (!is_open() ...) return std::nullopt
TryReceiveCall ==
    /\ rpc = "idle" /\ rx = DATA
    /\ \E b \in is_open(RCV) :
         /\ seen' = Saw(RCV, b)
         /\ IF b
            THEN /\ rpc' = "try_recv_acquire"
                 /\ rcall' = Call(RCV, "try_receive")
            ELSE /\ rpc' = "returned"
                 /\ rcall' = Returned(RCV, Call(RCV, "try_receive"), NONE, 0)
    /\ UNCHANGED <<shared, refs, rx, tx, rxOld, txOld, spc, sdata, rtmp, carried,
                   scall, sent, rcvd>>

\* try_receive: if (... !internal->read.try_acquire()) return std::nullopt
TryReceiveAcquire ==
    /\ rpc = "try_recv_acquire"
    /\ LET a == try_acquire(read)
       IN  /\ read' = a.count
           /\ IF a.ok
              THEN /\ rpc' = "try_recv_get"
                   /\ seen' = [seen EXCEPT ![RCV] = @ \/ carried["read"]]
                   /\ rcall' = rcall
              ELSE /\ rpc' = "returned"
                   /\ rcall' = Returned(RCV, rcall, NONE, 0)
                   /\ seen' = seen
    /\ UNCHANGED <<open, head, tail, buffer, write, refs, rx, tx, rxOld, txOld,
                   spc, sdata, rtmp, carried, scall, sent, rcvd>>

\* try_receive: return std::optional<T>(std::move(getHead()))
TryReceiveGetHead ==
    /\ rpc = "try_reading"
    /\ LET g == getHead(buffer, head)
       IN  /\ head' = g.head
           /\ rcvd' = Append(rcvd, g.tmp)
           /\ rcall' = Returned(RCV, rcall, Some(g.tmp), 0)
    /\ write' = try_receive_write(write)
    /\ rpc' = "returned"
    /\ UNCHANGED <<open, tail, buffer, read, refs, rx, tx, rxOld, txOld, spc,
                   sdata, rtmp, seen, carried, scall, sent>>

\* ReceiverChannel::is_open()
ReceiverIsOpen ==
    /\ rpc = "idle" /\ rx = DATA
    /\ \E b \in is_open(RCV) :
         /\ seen' = Saw(RCV, b)
         /\ rcall' = Returned(RCV, Call(RCV, "is_open"), b, 0)
    /\ rpc' = "returned"
    /\ UNCHANGED <<shared, refs, rx, tx, rxOld, txOld, spc, sdata, rtmp,
                   carried, scall, sent, rcvd>>

\* The receiver's caller has the value returned and goes on.
ReceiverReturn ==
    /\ rpc = "returned"
    /\ rpc' = "idle"
    /\ rcall' = NoCall
    /\ UNCHANGED <<shared, refs, rx, tx, rxOld, txOld, spc, sdata, rtmp, seen,
                   carried, scall, sent, rcvd>>

\* ReceiverChannel::close()
ReceiverClose ==
    /\ rpc = "idle" /\ rx = DATA
    /\ open' = CloseOpen(rx, open)
    /\ seen' = [seen EXCEPT ![RCV] = TRUE]
    /\ UNCHANGED <<head, tail, buffer, read, write, refs, rx, tx, rxOld, txOld,
                   spc, rpc, sdata, rtmp, carried, scall, rcall, sent, rcvd>>

\* ReceiverChannel(ReceiverChannel &&other): the thread goes on with the new handle.
ReceiverMove ==
    /\ rpc = "idle" /\ rx = DATA
    /\ Len(rxOld) < MaxMoved
    /\ rx' = MoveTaken(rx)
    /\ rxOld' = Append(rxOld, MoveDonor(rx))
    /\ refs' = Holders(<<rx', tx>> \o rxOld' \o txOld)
    /\ UNCHANGED <<shared, tx, txOld, spc, rpc, sdata, rtmp, seen, carried,
                   scall, rcall, sent, rcvd>>

\* ~ReceiverChannel() of a moved-from handle
ReceiverDestroyMoved ==
    /\ rxOld # <<>>
    /\ open' = CloseOpen(Head(rxOld), open)
    /\ refs' = Release(Head(rxOld), refs)
    /\ rxOld' = Tail(rxOld)
    /\ seen' = [seen EXCEPT ![RCV] = @ \/ (Head(rxOld) # NULL)]
    /\ UNCHANGED <<head, tail, buffer, read, write, rx, tx, txOld, spc, rpc,
                   sdata, rtmp, carried, scall, rcall, sent, rcvd>>

\* ~ReceiverChannel() of the receiver thread's handle
ReceiverDestroy ==
    /\ rpc = "idle" /\ rx = DATA
    /\ open' = CloseOpen(rx, open)
    /\ refs' = Release(rx, refs)
    /\ rx' = GONE
    /\ seen' = [seen EXCEPT ![RCV] = TRUE]
    /\ UNCHANGED <<head, tail, buffer, read, write, tx, rxOld, txOld, spc, rpc,
                   sdata, rtmp, carried, scall, rcall, sent, rcvd>>

----------------------------------------------------------------------------
\* Any use of the two handles, each by its own thread.  The value handed to
\* the sender is the number of the element it would become.
Next ==
    \/ Len(sent) < MaxSends /\ SendCall(Len(sent) + 1)
    \/ SendAcquire
    \/ Len(sent) < MaxSends /\ TrySendCall(Len(sent) + 1)
    \/ TrySendAcquire
    \/ SendWriteSlot
    \/ SendWriteTail
    \/ SendRelease
    \/ SenderIsOpen
    \/ SenderReturn
    \/ SenderClose
    \/ SenderMove
    \/ SenderDestroyMoved
    \/ SenderDestroy
    \/ ReceiveCall
    \/ ReceiveAcquire
    \/ ReceiveReadSlot
    \/ ReceiveGetHead
    \/ ReceiveRelease
    \/ TryReceiveCall
    \/ TryReceiveAcquire
    \/ TryReceiveGetHead
    \/ ReceiverIsOpen
    \/ ReceiverReturn
    \/ ReceiverClose
    \/ ReceiverMove
    \/ ReceiverDestroyMoved
    \/ ReceiverDestroy

Spec == Init /\ [][Next]_vars

----------------------------------------------------------------------------
\* ChannelTest.ThreadSingleWriter: each handle is moved into its thread; the
\* writer sends 0 .. SampleSize-1 and drops its handle, the reader receives
\* SampleSize times and drops its handle; the moved-from handles of the test
\* body die after both threads are joined.

TestMoveTx == txOld = <<>> /\ sent = <<>> /\ SenderMove

TestSend == txOld # <<>> /\ Len(sent) < SampleSize /\ SendCall(Len(sent))

TestWriterEnd == Len(sent) = SampleSize /\ SenderDestroy

TestMoveRx == rxOld = <<>> /\ rcvd = <<>> /\ ReceiverMove

TestReceive == rxOld # <<>> /\ Len(rcvd) < SampleSize /\ ReceiveCall

TestReaderEnd == Len(rcvd) = SampleSize /\ ReceiverDestroy

TestEnd ==
    /\ tx = GONE /\ rx = GONE
    /\ (SenderDestroyMoved \/ ReceiverDestroyMoved)

NextTest ==
    \/ TestMoveTx
    \/ TestSend
    \/ SendAcquire
    \/ SendWriteSlot
    \/ SendWriteTail
    \/ SendRelease
    \/ TestWriterEnd
    \/ TestMoveRx
    \/ TestReceive
    \/ ReceiveAcquire
    \/ ReceiveReadSlot
    \/ ReceiveGetHead
    \/ ReceiveRelease
    \/ ReceiverReturn
    \/ TestReaderEnd
    \/ TestEnd

SpecTest == Init /\ [][NextTest]_vars

----------------------------------------------------------------------------
\* C1: with one producer sending 0 .. N-1 by send() and then dropping its
\* handle, and one consumer calling receive() N times and then dropping its
\* handle, the consumer observes exactly 0, 1, .., N-1 in this order under
\* every interleaving: what it has received so far is always the first
\* numbers in order, and when it is done it has received all N of them.
C1_ProducerConsumer ==
    /\ Len(rcvd) <= SampleSize
    /\ \A i \in 1 .. Len(rcvd) : rcvd[i] = i - 1
    /\ (rpc = "returned" /\ rcall.op = "receive") => rcall.val = Some(Len(rcvd) - 1)
    /\ rx = GONE => rcvd = [i \in 1 .. SampleSize |-> i - 1]

\* Both threads are done, the reader has all N values, and N exceeds the
\* capacity (the ring has wrapped around).
C1_Witness ==
    /\ tx = GONE /\ rx = GONE
    /\ Len(rcvd) = SampleSize
    /\ SampleSize > Size

\* C2: FIFO.  The values returned by the receiver's successful reads, by
\* receive() or try_receive(), are the values the sender enqueued, by send()
\* or try_send(), in the same order: the history received is always a prefix
\* of the history enqueued, and a value just returned is the next one of it.
C2_Fifo ==
    /\ Len(rcvd) <= Len(sent)
    /\ \A i \in 1 .. Len(rcvd) : rcvd[i] = sent[i]
    /\ (rpc = "returned" /\ rcall.op \in {"receive", "try_receive"}
          /\ rcall.val # NONE) => rcall.val = Some(sent[Len(rcvd)])

\* A third element, enqueued by try_send into a slot used before, has been
\* returned by try_receive after a receive() returned an earlier one.
C2_Witness ==
    /\ Len(rcvd) = Size + 1
    /\ rpc = "returned" /\ rcall.op = "try_receive" /\ rcall.val = Some(sent[Size + 1])
    /\ write > 0

\* A try_send that began on an open channel, with the receiver outside any
\* call, and ran with no change made by the receiver.
CleanTrySend ==
    /\ spc = "returned" /\ scall.op = "try_send"
    /\ ~scall.closed /\ scall.clean

\* C3: round trip.  In every reachable state in which the channel is open and
\* holds no unreceived element, try_send(x) returns true, and the try_receive()
\* that immediately follows it returns x.
C3_RoundTrip ==
    /\ (CleanTrySend /\ scall.held = 0) => scall.val = TRUE
    /\ (rpc = "returned" /\ rcall.op = "try_receive" /\ rcall.rt # NONE
          /\ rcall.clean) => rcall.val = rcall.rt

\* C4: whenever neither thread is inside a send, try_send, receive or
\* try_receive, the readable counter plus the writable counter is the capacity.
C4_CountersSum ==
    (Quiet(spc) /\ Quiet(rpc)) => read + write = Size

\* C5: capacity bound.  Never more than Size elements are enqueued and
\* unreceived, and the sender is refused only by a full or closed channel: on
\* an open channel holding fewer than Size elements try_send returns true and
\* send does not block; on a channel holding Size elements try_send returns
\* false and send blocks, until the receiver has drained a slot by receive()
\* or try_receive().
C5_CapacityBound ==
    /\ Held <= Size
    /\ (CleanTrySend /\ scall.held >= 0) => (scall.val = (scall.held < Size))
    /\ (spc = "send_acquire" /\ Quiet(rpc))
          => (can_acquire(write) = (Held < Size))

\* C6: close visibility.  Once a handle has been closed, or a handle that was
\* not moved from has been destroyed, a call of is_open() that the peer begins
\* returns false, a try_send() it begins returns false and a try_receive() it
\* begins returns empty.
C6_CloseVisibility ==
    /\ (spc = "returned" /\ scall.op \in {"is_open", "try_send"} /\ scall.closed)
          => scall.val = FALSE
    /\ (rpc = "returned" /\ rcall.op = "is_open" /\ rcall.closed)
          => rcall.val = FALSE
    /\ (rpc = "returned" /\ rcall.op = "try_receive" /\ rcall.closed)
          => rcall.val = NONE

\* A step that is a close() of either handle.
CloseStep == SenderClose \/ ReceiverClose

\* C7: close idempotence.  After close() has been called, once or many times,
\* on the sender, the receiver or both, is_open() is false on both handles,
\* and a close() of a channel that is closed already changes no part of the
\* shared state.
C7_CloseIdempotent ==
    [][ /\ (~open /\ CloseStep) => UNCHANGED shared
        /\ (spc' = "returned" /\ scall'.op = "is_open" /\ scall'.closed)
              => scall'.val = FALSE
        /\ (rpc' = "returned" /\ rcall'.op = "is_open" /\ rcall'.closed)
              => rcall'.val = FALSE ]_vars

\* C8: closed is terminal.  Once the open flag is false it is never true
\* again, and every try_send() begun from then on returns false and every
\* try_receive() begun from then on returns empty, whatever the buffer holds.
C8_ClosedTerminal ==
    [][ /\ ~open => ~open'
        /\ (spc' = "returned" /\ scall'.op = "try_send" /\ scall'.closed)
              => scall'.val = FALSE
        /\ (rpc' = "returned" /\ rcall'.op = "try_receive" /\ rcall'.closed)
              => rcall'.val = NONE ]_vars

\* A sender waiting in send() for a writable slot, a receiver waiting in
\* receive() for a readable element.
SenderBlocked == spc = "send_acquire" /\ ~can_acquire(write)
ReceiverBlocked == rpc = "recv_acquire" /\ ~can_acquire(read)

\* The step that completes a receive(), a send(), a send() or try_send().
ReceiveDone == rpc = "recv_release" /\ rpc' # "recv_release"
SendDone == spc = "release" /\ scall.op = "send" /\ spc' # "release"
EnqueueDone == spc = "release" /\ spc' # "release"

\* C9: bounded blocking.  A sender blocked in send() stays blocked as long as
\* the receiver completes no receive(), and can complete as soon as the
\* receiver has completed one receive(); a receiver blocked in receive() stays
\* blocked until the sender has completed one send(), and can complete as
\* soon as it has.
C9_BoundedBlocking ==
    [][ /\ (SenderBlocked /\ ~ReceiveDone) => SenderBlocked'
        /\ (spc = "send_acquire" /\ ReceiveDone)
              => (spc' = "send_acquire" /\ can_acquire(write'))
        /\ (ReceiverBlocked /\ ~SendDone) => ReceiverBlocked'
        /\ (rpc = "recv_acquire" /\ SendDone)
              => (rpc' = "recv_acquire" /\ can_acquire(read')) ]_vars

\* C9 as amended: the receiver blocked in receive() stays blocked until the
\* sender has completed one send() or one successful try_send(), and can
\* complete as soon as it has; the sender's half is as in C9.
C9_BoundedBlockingAmended ==
    [][ /\ (SenderBlocked /\ ~ReceiveDone) => SenderBlocked'
        /\ (spc = "send_acquire" /\ ReceiveDone)
              => (spc' = "send_acquire" /\ can_acquire(write'))
        /\ (ReceiverBlocked /\ ~EnqueueDone) => ReceiverBlocked'
        /\ (rpc = "recv_acquire" /\ EnqueueDone)
              => (rpc' = "recv_acquire" /\ can_acquire(read')) ]_vars

\* A send() that began on a full channel is still waiting, now with a slot to
\* take, right after a receive() has returned.
C9_Witness ==
    /\ spc = "send_acquire" /\ scall.held = Size /\ can_acquire(write)
    /\ rpc = "returned" /\ rcall.op = "receive"
    /\ Held = Size - 1

\* No handle has been closed or destroyed while holding the Data object.
NobodyClosed == ~seen[SND] /\ ~seen[RCV]

\* C10: a channel just returned by create_channel() is open and empty with
\* all slots free, although the factory's own handles were moved from and
\* destroyed: open = true, head = tail = 0, readable = 0, writable = Size;
\* is_open() is true on both handles, try_receive() returns empty, and exactly
\* Size try_send() calls in a row succeed before one returns false.
C10_FreshChannel ==
    /\ NobodyClosed => open
    /\ (NobodyClosed /\ sent = <<>> /\ Quiet(spc) /\ Quiet(rpc))
          => (head = 0 /\ tail = 0 /\ read = 0 /\ write = Size /\ refs = 2)
    /\ (NobodyClosed /\ spc = "returned" /\ scall.op = "is_open")
          => scall.val = TRUE
    /\ (NobodyClosed /\ rpc = "returned" /\ rcall.op = "is_open")
          => rcall.val = TRUE
    /\ (sent = <<>> /\ rpc = "returned" /\ rcall.op = "try_receive")
          => rcall.val = NONE
    /\ (NobodyClosed /\ rcvd = <<>> /\ Quiet(rpc) /\ spc = "returned"
          /\ scall.op = "try_send" /\ scall.held >= 0)
          => (scall.val = (scall.held < Size))

\* On a channel on which nothing was received or closed, the try_send() after
\* Size accepted ones has returned false.
C10_Witness ==
    /\ NobodyClosed /\ rcvd = <<>> /\ Quiet(rpc)
    /\ spc = "returned" /\ scall.op = "try_send"
    /\ scall.held = Size /\ scall.val = FALSE
    /\ Len(sent) = Size

----------------------------------------------------------------------------
\* The handles that share ownership of the Data object: the two live handles
\* and the moved-from ones that are still in scope.
Owners == Holders(<<rx, tx>> \o rxOld \o txOld)

\* The Data object has been released: its use count is zero.
Released == refs = 0

\* C11: the Data object is released exactly when the last of the two owning
\* handles is destroyed, whichever goes first and however often the handles
\* were moved: the use count is the number of handles holding the object, it
\* is positive while a live handle refers to the object (so every operation
\* in progress works on live state), it is zero once both are destroyed, and
\* it reaches zero only in the step that destroys the last owning handle.
C11_Lifetime ==
    [][ /\ refs = Owners /\ refs' = Owners'
        /\ (rx = DATA \/ tx = DATA) => ~Released
        /\ (rx' = GONE /\ tx' = GONE) <=> Released'
        /\ spc # "idle" => (tx = DATA /\ ~Released)
        /\ rpc # "idle" => (rx = DATA /\ ~Released)
        /\ (~Released /\ Released')
              => \/ tx = DATA /\ tx' = GONE /\ rx = GONE
                 \/ rx = DATA /\ rx' = GONE /\ tx = GONE ]_vars

\* Both handles were moved and both are destroyed, the receiver's last, with
\* the moved-from handles still in scope: the object is released.
C11_Witness ==
    /\ Released
    /\ tx = GONE /\ rx = GONE
    /\ txOld = <<NULL>> /\ rxOld = <<NULL>>
    /\ Len(rcvd) < Len(sent)

----------------------------------------------------------------------------
\* ChannelTest.ThreadSingleWriter under fair scheduling: the writer thread,
\* the reader thread and the test body each get to take a step that stays
\* possible. A blocked acquire() is not such a step: it waits for the peer.

WriterThread ==
    \/ TestMoveTx
    \/ TestSend
    \/ SendAcquire
    \/ SendWriteSlot
    \/ SendWriteTail
    \/ SendRelease
    \/ TestWriterEnd

ReaderThread ==
    \/ TestMoveRx
    \/ TestReceive
    \/ ReceiveAcquire
    \/ ReceiveReadSlot
    \/ ReceiveGetHead
    \/ ReceiveRelease
    \/ ReceiverReturn
    \/ TestReaderEnd

\* Where each thread is and which handles exist: every step changes it.
position == <<spc, rpc, rx, tx, rxOld, txOld>>

SpecTestFair ==
    /\ Init /\ [][NextTest]_vars
    /\ WF_position(WriterThread)
    /\ WF_position(ReaderThread)
    /\ WF_position(TestEnd)

\* C12: with one producer making N blocking send() calls and one consumer
\* making N blocking receive() calls, under fair scheduling both threads
\* eventually finish and drop their handles, also when the producer finishes
\* first and closes the channel with elements still unreceived.
C12_Progress == <>(tx = GONE /\ rx = GONE /\ Len(rcvd) = SampleSize)

\* The producer has finished and destroyed its handle, which closed the
\* channel, while the consumer is inside receive() with elements unreceived.
C12_Witness ==
    /\ tx = GONE /\ ~open
    /\ rx = DATA /\ rpc = "recv_acquire"
    /\ Len(rcvd) < SampleSize - 1
    /\ read > 1

----------------------------------------------------------------------------
\* C13: a try_receive() that returns a value has the effect of receive() on
\* the shared state: its try_acquire takes one readable element, and its
\* getHead returns the element at head, advances head by one modulo Size and
\* is followed by the release of one writable slot before the call returns.
C13_TryReceiveAsReceive ==
    [][ /\ (rpc = "try_recv_acquire" /\ rpc' = "try_recv_get")
              => read' = read - 1
        /\ (rpc = "try_reading" /\ rpc' = "returned")
              => /\ rcall'.val = Some(buffer[head])
                 /\ head' = (head + 1) % Size
                 /\ write' = write + 1 ]_vars

----------------------------------------------------------------------------
\* try_send() returns false / try_receive() returns empty, in this step.
TrySendFails ==
    /\ spc \in {"idle", "try_send_acquire"} /\ spc' = "returned"
    /\ scall'.op = "try_send" /\ scall'.val = FALSE

TryReceiveFails ==
    /\ rpc \in {"idle", "try_recv_acquire"} /\ rpc' = "returned"
    /\ rcall'.op = "try_receive" /\ rcall'.val = NONE

\* C14: a try_send() that returns false and a try_receive() that returns
\* empty leave open, head, tail, buffer, readable and writable as they were
\* (their is_open() check and their failed try_acquire change nothing), and
\* they return without blocking: the try_acquire step can always be taken.
C14_FailedTryNoChange ==
    [][ /\ (TrySendFails \/ TryReceiveFails) => UNCHANGED shared
        /\ (spc = "idle" /\ spc' = "try_send_acquire") => UNCHANGED shared
        /\ (rpc = "idle" /\ rpc' = "try_recv_acquire") => UNCHANGED shared
        /\ spc = "try_send_acquire" => ENABLED TrySendAcquire
        /\ rpc = "try_recv_acquire" => ENABLED TryReceiveAcquire ]_vars

\* On a channel nobody closed, try_send() has just returned false because
\* all Size slots are taken, and nothing was lost from the channel.
C14_Witness ==
    /\ NobodyClosed /\ open
    /\ spc = "returned" /\ scall.op = "try_send" /\ scall.val = FALSE
    /\ write = 0 /\ read = Size /\ tail = head
    /\ rcvd = <<>>

----------------------------------------------------------------------------
\* A step in which a handle hangs up: the first close() on the channel, or
\* the destruction of the sender's or of the receiver's handle.
HangUp ==
    \/ open /\ ~open'
    \/ tx = DATA /\ tx' = GONE
    \/ rx = DATA /\ rx' = GONE

\* C15: closing does not wake a blocked peer. A receiver blocked in
\* receive() on an empty channel is still blocked after the sender closes or
\* is destroyed, and stays blocked for ever once the sender's handle is gone
\* (or, on a closed channel, as long as the sender enqueues nothing more); a
\* sender blocked in send() with no writable slot likewise once the receiver
\* has hung up (as long as the receiver completes no receive()).
C15_CloseDoesNotWake ==
    [][ /\ (ReceiverBlocked /\ HangUp) => ReceiverBlocked'
        /\ (SenderBlocked /\ HangUp) => SenderBlocked'
        /\ (ReceiverBlocked /\ tx = GONE) => (ReceiverBlocked' /\ tx' = GONE)
        /\ (SenderBlocked /\ rx = GONE) => (SenderBlocked' /\ rx' = GONE)
        /\ (ReceiverBlocked /\ ~open /\ ~EnqueueDone) => ReceiverBlocked'
        /\ (SenderBlocked /\ ~open /\ ~ReceiveDone) => SenderBlocked' ]_vars

\* The receiver waits in receive() on an empty channel whose sender has been
\* destroyed, which closed the channel.
C15_Witness ==
    /\ ReceiverBlocked /\ Held = 0
    /\ tx = GONE /\ ~open
    /\ sent # <<>>

----------------------------------------------------------------------------
\* C16: send() and receive() ignore the open flag. Whatever open is, a
\* receive() waiting with readable > 0 can take its element and a send()
\* waiting with writable > 0 can take its slot; on a closed channel the
\* receive() returns the oldest unreceived element and the send() enqueues
\* its argument at tail; and no step of either call changes open.
C16_BlockingIgnoresOpen ==
    [][ /\ (rpc = "recv_acquire" /\ read > 0) => ENABLED ReceiveAcquire
        /\ (spc = "send_acquire" /\ write > 0) => ENABLED SendAcquire
        /\ (~open /\ rpc = "recv_release" /\ rpc' = "returned")
              => /\ rcall'.val = Some(sent[Len(rcvd) + 1])
                 /\ rcvd' = Append(rcvd, sent[Len(rcvd) + 1])
        /\ (~open /\ scall.op = "send" /\ spc = "writing" /\ spc' = "release")
              => /\ buffer'[tail] = sdata[1]
                 /\ sent' = Append(sent, sdata[1])
        /\ (spc' # spc /\ "send" \in {scall.op, scall'.op}) => open' = open
        /\ (rpc' # rpc /\ "receive" \in {rcall.op, rcall'.op}) => open' = open
      ]_vars

\* A receive() that began on a closed channel has returned an element, and
\* a send() that began on a closed channel has enqueued its argument.
C16_Witness ==
    /\ ~open
    /\ rpc = "returned" /\ rcall.op = "receive" /\ rcall.closed
    /\ rcall.val # NONE
    /\ spc = "release" /\ scall.op = "send" /\ scall.closed

----------------------------------------------------------------------------
\* A close() on either handle, or the destruction of a handle, live or
\* moved-from.
CloseOrDestroy ==
    \/ CloseStep
    \/ SenderDestroy
    \/ ReceiverDestroy
    \/ SenderDestroyMoved
    \/ ReceiverDestroyMoved

\* C17: close() on either handle changes only the open flag: every close()
\* and every destruction of a handle leaves head, tail, the buffer, readable
\* and writable as they were, and so does every step in which open changes.
C17_CloseFrame ==
    [][ (CloseOrDestroy \/ open' # open)
            => UNCHANGED <<head, tail, buffer, read, write>> ]_vars

\* close() was called on a channel that holds elements, with both handles
\* alive: the elements and the counters are still there.
C17_Witness ==
    /\ ~open /\ tx = DATA /\ rx = DATA
    /\ Quiet(spc) /\ Quiet(rpc)
    /\ Held = Size /\ read = Size /\ write = 0
    /\ head = 1 /\ tail = 1

----------------------------------------------------------------------------
\* C18: a move transfers the ownership share and nothing else: the donor is
\* left empty, the destination refers to the Data object, the number of
\* owning handles and open, head, tail, buffer and both counters are
\* unchanged. close() on a moved-from handle in scope would leave open as it
\* is, and destroying one changes neither the shared state nor the use count,
\* whereas destroying the destination closes the channel and gives up its
\* share.
C18_MoveFrame ==
    [][ /\ Len(txOld') > Len(txOld)
              => /\ tx = DATA /\ tx' = DATA /\ txOld'[Len(txOld')] = NULL
                 /\ refs' = refs /\ Owners' = Owners
                 /\ UNCHANGED shared
        /\ Len(rxOld') > Len(rxOld)
              => /\ rx = DATA /\ rx' = DATA /\ rxOld'[Len(rxOld')] = NULL
                 /\ refs' = refs /\ Owners' = Owners
                 /\ UNCHANGED shared
        /\ \A i \in DOMAIN txOld : CloseOpen(txOld[i], open) = open
        /\ \A i \in DOMAIN rxOld : CloseOpen(rxOld[i], open) = open
        /\ (Len(txOld') < Len(txOld) \/ Len(rxOld') < Len(rxOld))
              => UNCHANGED <<shared, refs, tx, rx>>
        /\ (tx = DATA /\ tx' = GONE) => (~open' /\ refs' = refs - 1)
        /\ (rx = DATA /\ rx' = GONE) => (~open' /\ refs' = refs - 1) ]_vars

\* Both handles were moved; the sender's destination has been destroyed,
\* which closed the channel, while the moved-from handles are still in scope
\* and the receiver's destination still owns the Data object.
C18_Witness ==
    /\ txOld = <<NULL>> /\ rxOld = <<NULL>>
    /\ tx = GONE /\ rx = DATA
    /\ ~open /\ refs = 1 /\ ~seen[RCV]
    /\ Held > 0

----------------------------------------------------------------------------
\* A move of either handle.
MoveStep == Len(txOld') > Len(txOld) \/ Len(rxOld') > Len(rxOld)

\* C19: head is changed only by the receiver's getHead (in receive() and
\* try_receive()) and tail only by the sender's writeTail (in send() and
\* try_send()); close, move and destruction change neither; and both indices
\* stay within 0 .. Size-1.
C19_SingleWriter ==
    [][ /\ head' # head
              => /\ rpc \in {"reading", "try_reading"} /\ rpc' # rpc
                 /\ rcall.op \in {"receive", "try_receive"}
                 /\ spc' = spc /\ tail' = tail
        /\ tail' # tail
              => /\ spc = "writing" /\ spc' = "release"
                 /\ scall.op \in {"send", "try_send"}
                 /\ rpc' = rpc /\ head' = head
        /\ (CloseOrDestroy \/ MoveStep) => UNCHANGED <<head, tail>>
        /\ {head, tail, head', tail'} \subseteq 0 .. Size - 1 ]_vars

\* Both indices have wrapped around: Size + 1 elements were enqueued and
\* Size of them received.
C19_Witness ==
    /\ Len(sent) = Size + 1 /\ Len(rcvd) = Size
    /\ Quiet(spc) /\ Quiet(rpc)
    /\ tail = 1 % Size /\ head = 0

----------------------------------------------------------------------------
\* The sender is inside the assignment to the slot numbered tail; the
\* receiver is inside the read of the slot numbered head.
Writing == spc = "writing"
Reading == rpc \in {"reading", "try_reading"}

\* The number of elements the receiver has moved out of the buffer.
Taken == Len(rcvd) + (IF rpc = "recv_release" THEN 1 ELSE 0)

\* C20: with the slot write of writeTail and the slot read of getHead taken
\* as non-atomic, the sender never writes the slot the receiver is reading;
\* the slot the sender writes holds no unreceived element (fewer than Size
\* elements are enqueued and not yet moved out, and they lie from head up to
\* tail); and the slot the receiver reads holds a completed write, the oldest
\* element not yet moved out.
C20_NoSlotRace ==
    /\ (Writing /\ Reading) => tail # head
    /\ tail = Len(sent) % Size
    /\ head = Taken % Size
    /\ Taken <= Len(sent) /\ Len(sent) - Taken <= Size
    /\ Writing => Len(sent) - Taken < Size
    /\ Reading => (Taken < Len(sent) /\ buffer[head] = sent[Taken + 1])

\* After the ring has wrapped around, the sender is writing one slot while
\* the receiver is reading the other.
C20_Witness ==
    /\ Writing /\ Reading
    /\ Len(sent) > Size
    /\ tail # head

====
